---- MODULE Spec2Model ----
(***************************************************************************)
(* The SyncRoom Durable Object of chora-cloud (src/sync.ts): one instance  *)
(* per workspace, holding the change log, the version counter, the session *)
(* map, and the durable storage behind them; reached over WebSocket        *)
(* messages and over GET/POST /changes forwarded by the router.            *)
(***************************************************************************)
EXTENDS Integers, Sequences, FiniteSets, TLC

\* ---------------------------------------------------------------- bounds
MaxSessions == 2     \* WebSocket connections ever accepted by the instance
MaxVersion == 2      \* pushes are cut off once currentVersion would pass this
MaxBatch == 2        \* longest pushed batch
MaxTime == 1         \* the clock stops ticking here

\* ---------------------------------------------------------------- values
WS == 1..MaxSessions
Accounts == {"a1"}
Ids == {"r1", "r2"}
\* the version field a client sends with each record: one equal to no assigned
\* version, one that an assigned version can equal
ClientVersion(id) == IF id = "r1" THEN 7 ELSE 1

\* JavaScript null for Session.workspaceId
Null == "<null>"
\* the workspace this instance was created for (idFromName(workspaceId))
OwnWorkspace == "W"
\* workspaceId values a join message can carry
WorkspaceIds == {OwnWorkspace, "X", ""}

\* the workspace names of the /sync/<workspaceId>/... routes
Workspaces == {OwnWorkspace, "X"}
\* (mutant) every name gives the same instance id
idFromNameShared(workspaceId) == <<"id", OwnWorkspace>>
\* env.SYNC_ROOM.idFromName: one instance id per name
idFromName(workspaceId) == <<"id", workspaceId>>

\* JavaScript truthiness of a string-or-null value
Truthy(v) == v \notin {Null, ""}

\* an EncryptedChange as the server sees it: the opaque payload is its id
EncryptedChange(id, version) == [id |-> id, version |-> version]
\* a batch element that is not an object (null): assigning .version throws
NotARecord == [notRecord |-> TRUE]
IsRecord(e) == e # NotARecord
Elems == {EncryptedChange(id, ClientVersion(id)) : id \in Ids} \cup {NotARecord}
\* the `changes` field of a push: an array, or missing / not iterable
Array(items) == [iterable |-> TRUE, items |-> items]
NotIterable == [iterable |-> FALSE, items |-> <<>>]

RECURSIVE SeqsUpTo(_, _)
SeqsUpTo(S, n) ==
    IF n = 0 THEN {<<>>}
    ELSE LET shorter == SeqsUpTo(S, n - 1)
         IN shorter \cup {Append(q, e) : q \in {p \in shorter : Len(p) = n - 1}, e \in S}

Batches == {Array(q) : q \in SeqsUpTo(Elems, MaxBatch)} \cup {NotIterable}

\* other values a client can put in a record's version field
ClientVersions == {0, 2}
\* the batch with the version fields of its records set to v[1], v[2], ...
WithClientVersions(batch, v) ==
    Array([i \in 1..Len(batch.items) |->
              IF IsRecord(batch.items[i])
              THEN [batch.items[i] EXCEPT !.version = v[i]]
              ELSE batch.items[i]])

\* a JavaScript number that may be NaN (parseInt of junk, or a missing field)
Num(n) == [nan |-> FALSE, n |-> n]
NaN == [nan |-> TRUE]
\* (mutant) the comparison lets the record at sinceVersion through
GreaterOrEqual(v, since) == ~since.nan /\ v >= since.n

\* c.version > sinceVersion  (false whenever sinceVersion is NaN/undefined)
Greater(v, since) == ~since.nan /\ v > since.n

VARIABLES
    sessions,        \* this.sessions: Map<WebSocket, Session>
    changes,         \* this.changes
    currentVersion,  \* this.currentVersion
    storage,         \* this.state.storage: key -> value
    SYNC_SECRET,     \* env.SYNC_SECRET ("" when not configured)
    chan,            \* per WebSocket handle: "free", "open", "dead", "closed"
    now,             \* Date.now()
    room,            \* the workspace whose instance the fields above belong to
    parked,          \* per instance id: the fields of the instances not running
    inflight,        \* per caller: the push whose handler waits at an await
    cursor           \* a pulling client: the version it last got, the records it got

\* what lies outside the running instance
aux == <<room, parked, inflight, cursor>>

vars == <<sessions, changes, currentVersion, storage, SYNC_SECRET, chan, now, aux>>

\* ---------------------------------------------------------------- auth.ts
\* a token: payload, the key its signature was made with, and its shape
Token(accountId, exp, key) ==
    [parts |-> 2, accountId |-> accountId, exp |-> exp, key |-> key]
MalformedToken == [parts |-> 1, accountId |-> "", exp |-> 0, key |-> ""]
\* tokens a client can present: good ones, one signed with another key, one
\* whose exp has passed, one without the two-part shape
Tokens ==
    {Token(a, MaxTime + 1, "k1") : a \in Accounts}
        \cup {Token("a1", MaxTime + 1, "dev-secret"), Token("a1", -1, "k1"), MalformedToken}

NullPayload == [null |-> TRUE]

\* the token lifetime, in hours
TOKEN_EXPIRY_HOURS == 168
\* generateToken rejected (crypto.subtle.importKey threw): there is no token
Rejected == [parts |-> 0, accountId |-> "", exp |-> 0, key |-> ""]
\* generateToken at time t (seconds); importKey rejects a zero-length HMAC key
generateToken(accountId, secret, t) ==
    IF secret = "" THEN Rejected
    ELSE Token(accountId, t + TOKEN_EXPIRY_HOURS * 3600, secret)

\* (mutant) the signature is not verified
verifyTokenAnyKey(token, secret, t) ==
    IF token.parts # 2 THEN NullPayload
    ELSE IF token.exp < t THEN NullPayload
    ELSE IF secret = "" THEN NullPayload
    ELSE [accountId |-> token.accountId, exp |-> token.exp]

\* (mutant) the exp of the payload is not looked at
verifyTokenNoExpiry(token, secret, t) ==
    IF token.parts # 2 THEN NullPayload
    ELSE IF secret = "" THEN NullPayload
    ELSE IF token.key = secret THEN [accountId |-> token.accountId, exp |-> token.exp]
    ELSE NullPayload

verifyToken(token, secret, t) ==
    IF token.parts # 2 THEN NullPayload
    ELSE IF token.exp < t THEN NullPayload
    \* importKey rejects a zero-length HMAC key; the catch returns null
    ELSE IF secret = "" THEN NullPayload
    ELSE IF token.key = secret THEN [accountId |-> token.accountId, exp |-> token.exp]
    ELSE NullPayload

\* ---------------------------------------------------------------- storage
\* a stored value is <<v>>; a key never written reads as undefined, <<>>
Undefined == <<>>
EmptyStorage == [version |-> Undefined, changes |-> Undefined]
get(st, key) == st[key]
put(st, key, value) == [st EXCEPT ![key] = <<value>>]

\* the fields of an instance nobody has used yet
FreshInstance ==
    [sessions |-> <<>>, changes |-> <<>>, currentVersion |-> 0, storage |-> EmptyStorage]

\* the callers of a push: the sockets, and the one of POST /changes
Stateless == 0
Callers == WS \cup {Stateless}

\* no push of this caller is under way
Idle == [stage |-> "idle", batch |-> Array(<<>>), first |-> 0]

\* ---------------------------------------------------------------- sending
\* ws.send inside try/catch: the call is made; it throws when the socket is closed
send(ws, message) == <<[to |-> ws, msg |-> message, ok |-> chan[ws] = "open"]>>

\* (mutant) the error goes to every session of the registry
sendErrorToAll(ws, code) ==
    LET q == SelectSeq([i \in 1..MaxSessions |-> i], LAMBDA w : w \in DOMAIN sessions)
    IN [i \in 1..Len(q) |-> [to |-> q[i], msg |-> [type |-> "error", code |-> code],
                              ok |-> chan[q[i]] = "open"]]

sendError(ws, code) == send(ws, [type |-> "error", code |-> code])

WsSeq == [i \in 1..MaxSessions |-> i]

RECURSIVE Flatten(_)
Flatten(ss) == IF ss = <<>> THEN <<>> ELSE Head(ss) \o Flatten(Tail(ss))

\* one send per element of ws-sequence q
SendAll(q, message) == Flatten([i \in 1..Len(q) |-> send(q[i], message)])

\* (mutant) a send that throws ends the loop
broadcastAborting(ss, message) ==
    LET q == SendAll(SelectSeq(WsSeq, LAMBDA w : w \in DOMAIN ss /\ Truthy(ss[w].workspaceId)),
                     message)
        failed == {i \in 1..Len(q) : ~q[i].ok}
    IN IF failed = {} THEN q
       ELSE SubSeq(q, 1, CHOOSE i \in failed : \A j \in failed : i <= j)

broadcast(ss, message) ==
    SendAll(SelectSeq(WsSeq, LAMBDA w : w \in DOMAIN ss /\ Truthy(ss[w].workspaceId)),
            message)

\* (mutant) the sender is not left out
broadcastIncludingSender(ss, sender, message) == broadcast(ss, message)

broadcastExcept(ss, sender, message) ==
    SendAll(SelectSeq(WsSeq, LAMBDA w : /\ w \in DOMAIN ss
                                        /\ w # sender
                                        /\ Truthy(ss[w].workspaceId)),
            message)

PresenceMember(s) ==
    [accountId |-> s.accountId, siteId |-> s.siteId,
     joinedAt |-> s.joinedAt, lastSeen |-> s.lastSeen]

members(ss) ==
    LET q == SelectSeq(WsSeq, LAMBDA w : /\ w \in DOMAIN ss
                                         /\ Truthy(ss[w].accountId)
                                         /\ Truthy(ss[w].workspaceId))
    IN [i \in 1..Len(q) |-> PresenceMember(ss[q[i]])]

broadcastPresence(ss) == broadcast(ss, [type |-> "presence", members |-> members(ss)])

\* ---------------------------------------------------------------- handlers
\* what a handler leaves behind: the new coordinator state, the sends it made,
\* the HTTP response if any, and whether it ended by throwing
Result(ss, ch, cv, st, snt, resp, thrown) ==
    [sessions |-> ss, changes |-> ch, currentVersion |-> cv, storage |-> st,
     sent |-> snt, response |-> resp, thrown |-> thrown]

NoResponse == [status |-> 0]

Unchanged(ss, snt) ==
    Result(ss, changes, currentVersion, storage, snt, NoResponse, FALSE)

\* (mutant) the version is assigned before the counter is incremented
RECURSIVE assignStaleVersions(_, _, _)
assignStaleVersions(batch, cv, log) ==
    IF batch = <<>> THEN [currentVersion |-> cv, changes |-> log, thrown |-> FALSE]
    ELSE IF ~IsRecord(Head(batch))
         THEN [currentVersion |-> cv + 1, changes |-> log, thrown |-> TRUE]
    ELSE assignStaleVersions(Tail(batch), cv + 1,
                             Append(log, [Head(batch) EXCEPT !.version = cv]))

\* (mutant) a record keeps the version its client sent
RECURSIVE assignTrustedVersions(_, _, _)
assignTrustedVersions(batch, cv, log) ==
    IF batch = <<>> THEN [currentVersion |-> cv, changes |-> log, thrown |-> FALSE]
    ELSE IF ~IsRecord(Head(batch))
         THEN [currentVersion |-> cv + 1, changes |-> log, thrown |-> TRUE]
    ELSE assignTrustedVersions(Tail(batch), cv + 1, Append(log, Head(batch)))

\* the for-loop of applyChanges over the batch left to do
RECURSIVE assignVersions(_, _, _)
assignVersions(batch, cv, log) ==
    IF batch = <<>> THEN [currentVersion |-> cv, changes |-> log, thrown |-> FALSE]
    ELSE IF ~IsRecord(Head(batch))
         THEN [currentVersion |-> cv + 1, changes |-> log, thrown |-> TRUE]
    ELSE assignVersions(Tail(batch), cv + 1,
                        Append(log, [Head(batch) EXCEPT !.version = cv + 1]))

\* (mutant) the log is not written to storage
applyChangesVersionOnly(newChanges, fail) ==
    IF ~newChanges.iterable
    THEN [currentVersion |-> currentVersion, changes |-> changes,
          storage |-> storage, thrown |-> TRUE]
    ELSE LET a == assignVersions(newChanges.items, currentVersion, changes)
             st1 == put(storage, "version", a.currentVersion)
         IN IF a.thrown \/ fail = "version"
            THEN [currentVersion |-> a.currentVersion, changes |-> a.changes,
                  storage |-> storage, thrown |-> TRUE]
            ELSE [currentVersion |-> a.currentVersion, changes |-> a.changes,
                  storage |-> st1, thrown |-> FALSE]

\* applyChanges; fail names the storage.put that throws: "none", "version", "changes"
applyChanges(newChanges, fail) ==
    IF ~newChanges.iterable
    THEN [currentVersion |-> currentVersion, changes |-> changes,
          storage |-> storage, thrown |-> TRUE]
    ELSE LET a == assignVersions(newChanges.items, currentVersion, changes)
             st1 == put(storage, "version", a.currentVersion)
             st2 == put(st1, "changes", a.changes)
         IN IF a.thrown \/ fail = "version"
            THEN [currentVersion |-> a.currentVersion, changes |-> a.changes,
                  storage |-> storage, thrown |-> TRUE]
            ELSE IF fail = "changes"
            THEN [currentVersion |-> a.currentVersion, changes |-> a.changes,
                  storage |-> st1, thrown |-> TRUE]
            ELSE [currentVersion |-> a.currentVersion, changes |-> a.changes,
                  storage |-> st2, thrown |-> FALSE]

\* the batch as the handlers see it after applyChanges returned: the same
\* objects, their version fields overwritten
Stamped(batch, cv) ==
    [i \in 1..Len(batch.items) |-> [batch.items[i] EXCEPT !.version = cv + i]]

handleAuth(ws, ss, token) ==
    LET payload == verifyToken(token, SYNC_SECRET, now)
    IN IF payload = NullPayload
       THEN Unchanged(ss, sendError(ws, "AUTH_FAILED"))
       ELSE Unchanged([ss EXCEPT ![ws].accountId = payload.accountId,
                                 ![ws].siteId = <<"site", payload.accountId, now>>],
                      send(ws, [type |-> "authenticated",
                                accountId |-> payload.accountId]))

\* (mutant) join does not ask for an authenticated session
handleJoinUnchecked(ws, ss, workspaceId) ==
    LET ss2 == [ss EXCEPT ![ws].workspaceId = workspaceId]
    IN Unchanged(ss2,
                 send(ws, [type |-> "joined", workspaceId |-> workspaceId,
                           currentVersion |-> currentVersion])
                     \o broadcastPresence(ss2))

handleJoin(ws, ss, workspaceId) ==
    IF ~Truthy(ss[ws].accountId)
    THEN Unchanged(ss, sendError(ws, "NOT_AUTHENTICATED"))
    ELSE LET ss2 == [ss EXCEPT ![ws].workspaceId = workspaceId]
         IN Unchanged(ss2,
                      send(ws, [type |-> "joined", workspaceId |-> workspaceId,
                                currentVersion |-> currentVersion])
                          \o broadcastPresence(ss2))

\* (mutant) leaving also forgets who the session is
handleLeaveLoggingOut(ws, ss) ==
    LET ss2 == [ss EXCEPT ![ws].workspaceId = Null, ![ws].accountId = ""]
    IN Unchanged(ss2, broadcastPresence(ss2))

handleLeave(ws, ss) ==
    LET ss2 == [ss EXCEPT ![ws].workspaceId = Null]
    IN Unchanged(ss2, broadcastPresence(ss2))

\* session.accountId && session.workspaceId
Joined(session) == Truthy(session.accountId) /\ Truthy(session.workspaceId)

\* (mutant) the write is not awaited: a failure never reaches the handler
handlePushUnawaited(ws, ss, batch, fail) ==
    IF ~Joined(ss[ws])
    THEN Unchanged(ss, sendError(ws, "NOT_JOINED"))
    ELSE LET a == applyChanges(batch, fail)
         IN Result(ss, a.changes, a.currentVersion, a.storage,
                   send(ws, [type |-> "pushed", version |-> a.currentVersion])
                       \o broadcastExcept(ss, ws,
                              [type |-> "changes",
                               changes |-> Stamped(batch, currentVersion),
                               version |-> a.currentVersion]),
                   NoResponse, FALSE)

handlePush(ws, ss, batch, fail) ==
    IF ~Joined(ss[ws])
    THEN Unchanged(ss, sendError(ws, "NOT_JOINED"))
    ELSE LET a == applyChanges(batch, fail)
         IN IF a.thrown
            THEN Result(ss, a.changes, a.currentVersion, a.storage, <<>>,
                        NoResponse, TRUE)
            ELSE Result(ss, a.changes, a.currentVersion, a.storage,
                        send(ws, [type |-> "pushed", version |-> a.currentVersion])
                            \o broadcastExcept(ss, ws,
                                   [type |-> "changes",
                                    changes |-> Stamped(batch, currentVersion),
                                    version |-> a.currentVersion]),
                        NoResponse, FALSE)

filter(log, since) == SelectSeq(log, LAMBDA c : Greater(c.version, since))

\* (mutant) what was delivered is dropped from the log
handlePullDraining(ws, ss, sinceVersion) ==
    IF ~Joined(ss[ws])
    THEN Unchanged(ss, sendError(ws, "NOT_JOINED"))
    ELSE Result(ss, <<>>, currentVersion, storage,
                send(ws, [type |-> "changes",
                          changes |-> filter(changes, sinceVersion),
                          version |-> currentVersion]),
                NoResponse, FALSE)

handlePull(ws, ss, sinceVersion) ==
    IF ~Joined(ss[ws])
    THEN Unchanged(ss, sendError(ws, "NOT_JOINED"))
    ELSE Unchanged(ss, send(ws, [type |-> "changes",
                                 changes |-> filter(changes, sinceVersion),
                                 version |-> currentVersion]))

\* the switch of webSocketMessage
dispatch(ws, ss, msg, fail) ==
    CASE msg.type = "auth" -> handleAuth(ws, ss, msg.token)
      [] msg.type = "join" -> handleJoin(ws, ss, msg.workspaceId)
      [] msg.type = "leave" -> handleLeave(ws, ss)
      [] msg.type = "push" -> handlePush(ws, ss, msg.changes, fail)
      [] msg.type = "pull" -> handlePull(ws, ss, msg.sinceVersion)
      [] msg.type = "ack" -> Unchanged(ss, <<>>)
      \* JSON.parse threw
      [] msg.type = "<unparsable>" -> Result(ss, changes, currentVersion, storage,
                                             <<>>, NoResponse, TRUE)
      \* a type the switch has no case for
      [] OTHER -> Unchanged(ss, <<>>)

\* (mutant) the catch of webSocketMessage sends nothing
webSocketMessageSwallowing(ws, msg, fail) ==
    IF ws \notin DOMAIN sessions
    THEN Unchanged(sessions, <<>>)
    ELSE dispatch(ws, [sessions EXCEPT ![ws].lastSeen = now], msg, fail)

\* webSocketMessage, as the state and the sends it leaves
webSocketMessage(ws, msg, fail) ==
    IF ws \notin DOMAIN sessions
    THEN Unchanged(sessions, <<>>)
    ELSE LET ss == [sessions EXCEPT ![ws].lastSeen = now]
             r == dispatch(ws, ss, msg, fail)
         IN IF r.thrown
            THEN [r EXCEPT !.sent = r.sent \o sendError(ws, "PARSE_ERROR")]
            ELSE r

\* ---------------------------------------------------------------- REST
\* v || d
OrElse(v, d) == IF Truthy(v) THEN v ELSE d

\* parseInt(url.searchParams.get("since") || "0")
parseSince(param) ==
    CASE param.kind = "absent" -> Num(0)
      [] param.kind = "int" -> Num(param.n)
      [] OTHER -> NaN

\* fetch for GET /changes
fetchGet(param) ==
    Result(sessions, changes, currentVersion, storage, <<>>,
           [status |-> 200, changes |-> filter(changes, parseSince(param)),
            version |-> currentVersion],
           FALSE)

\* (mutant) the bearer token is taken without being verified
fetchPostUnchecked(header, batch, fail) ==
    IF ~header.bearer
    THEN Result(sessions, changes, currentVersion, storage, <<>>,
                [status |-> 401, error |-> "Unauthorized"], FALSE)
    ELSE LET a == applyChanges(batch, fail)
         IN IF a.thrown
            THEN Result(sessions, a.changes, a.currentVersion, a.storage, <<>>,
                        [status |-> 500], TRUE)
            ELSE Result(sessions, a.changes, a.currentVersion, a.storage,
                        broadcast(sessions,
                                  [type |-> "changes",
                                   changes |-> Stamped(batch, currentVersion),
                                   version |-> a.currentVersion]),
                        [status |-> 200, success |-> TRUE,
                         version |-> a.currentVersion],
                        FALSE)

\* fetch for POST /changes; an exception leaves fetch, and the caller of the
\* router gets a server-error response (status 500)
fetchPost(header, batch, fail) ==
    IF ~header.bearer
    THEN Result(sessions, changes, currentVersion, storage, <<>>,
                [status |-> 401, error |-> "Unauthorized"], FALSE)
    ELSE IF verifyToken(header.token, OrElse(SYNC_SECRET, ""), now) = NullPayload
    THEN Result(sessions, changes, currentVersion, storage, <<>>,
                [status |-> 401, error |-> "Invalid token"], FALSE)
    ELSE LET a == applyChanges(batch, fail)
         IN IF a.thrown
            THEN Result(sessions, a.changes, a.currentVersion, a.storage, <<>>,
                        [status |-> 500], TRUE)
            ELSE Result(sessions, a.changes, a.currentVersion, a.storage,
                        broadcast(sessions,
                                  [type |-> "changes",
                                   changes |-> Stamped(batch, currentVersion),
                                   version |-> a.currentVersion]),
                        [status |-> 200, success |-> TRUE,
                         version |-> a.currentVersion],
                        FALSE)

\* the router's /api/login for a stored account: the token it returns
login(accountId) == generateToken(accountId, OrElse(SYNC_SECRET, "dev-secret"), now)

\* ---------------------------------------------------------------- inputs
AllRecords(batch) == batch.iterable /\ \A i \in 1..Len(batch.items) : IsRecord(batch.items[i])

\* which storage.put may throw: only a batch that reaches the puts can meet one
Fails(batch) == IF AllRecords(batch) THEN {"none", "version", "changes"} ELSE {"none"}

\* pushes stop being offered once the version counter would pass MaxVersion
Fits(batch) == currentVersion + Len(batch.items) <= MaxVersion

SinceVersions == {Num(n) : n \in 0..MaxVersion} \cup {NaN}

SinceParams == {[kind |-> "absent"], [kind |-> "junk"]}
                   \cup {[kind |-> "int", n |-> n] : n \in 0..MaxVersion}

AuthHeaders == {[bearer |-> FALSE, token |-> MalformedToken]}
                   \cup {[bearer |-> TRUE, token |-> t] : t \in Tokens}

Messages ==
    {[type |-> "auth", token |-> t] : t \in Tokens}
        \cup {[type |-> "join", workspaceId |-> w] : w \in WorkspaceIds}
        \cup {[type |-> "leave"]}
        \cup {[type |-> "push", changes |-> b] : b \in Batches}
        \cup {[type |-> "pull", sinceVersion |-> v] : v \in SinceVersions}
        \cup {[type |-> "ack", version |-> v] : v \in 0..MaxVersion}
        \cup {[type |-> "<unparsable>"], [type |-> "<unknown>"]}

\* ---------------------------------------------------------------- actions
\* the instance moves to what an operation left behind
Becomes(r) ==
    /\ sessions' = r.sessions
    /\ changes' = r.changes
    /\ currentVersion' = r.currentVersion
    /\ storage' = r.storage
    /\ UNCHANGED <<aux, SYNC_SECRET, chan, now>>

Recv(ws, msg, fail) ==
    /\ chan[ws] # "free"
    /\ Becomes(webSocketMessage(ws, msg, fail))

RecvAuth(ws) == \E m \in Messages : m.type = "auth" /\ Recv(ws, m, "none")

RecvJoin(ws) == \E m \in Messages : m.type = "join" /\ Recv(ws, m, "none")

RecvLeave(ws) == \E m \in Messages : m.type = "leave" /\ Recv(ws, m, "none")

\* a push that is turned away is turned away whatever it carries: one batch
\* stands for all of them
RecvPush(ws) ==
    \E m \in Messages :
        /\ m.type = "push"
        /\ Fits(m.changes)
        /\ (ws \notin DOMAIN sessions \/ ~Joined(sessions[ws])) => m.changes = Array(<<>>)
        /\ \E fail \in Fails(m.changes) : Recv(ws, m, fail)

RecvPull(ws) == \E m \in Messages : m.type = "pull" /\ Recv(ws, m, "none")

RecvAck(ws) == \E m \in Messages : m.type = "ack" /\ Recv(ws, m, "none")

RecvMalformed(ws) ==
    \E m \in Messages : m.type \in {"<unparsable>", "<unknown>"} /\ Recv(ws, m, "none")

fetchGetChanges == \E param \in SinceParams : Becomes(fetchGet(param))

\* the body of a request that is turned away is never read: one batch stands
\* for all of them
fetchPostChanges ==
    \E header \in AuthHeaders, batch \in Batches :
        /\ Fits(batch)
        /\ fetchPost(header, batch, "none").response.status = 401 => batch = Array(<<>>)
        /\ \E fail \in Fails(batch) : Becomes(fetchPost(header, batch, fail))

NewSession == [accountId |-> "", siteId |-> <<>>, workspaceId |-> Null,
               joinedAt |-> now, lastSeen |-> now]

\* (mutant) the entry stays in the registry
deleteNothing(ss, ws) == ss

delete(ss, ws) == [w \in DOMAIN ss \ {ws} |-> ss[w]]

\* fetch with Upgrade: websocket; handles are fresh, so the next free one is taken
handleWebSocket(ws) ==
    /\ chan[ws] = "free"
    /\ \A w \in WS : w < ws => chan[w] # "free"
    /\ chan' = [chan EXCEPT ![ws] = "open"]
    /\ sessions' = [w \in DOMAIN sessions \cup {ws} |->
                        IF w = ws THEN NewSession ELSE sessions[w]]
    /\ UNCHANGED <<aux, changes, currentVersion, storage, SYNC_SECRET, now>>

\* the socket stops accepting sends before the instance hears of it
ChannelDies(ws) ==
    /\ chan[ws] = "open"
    /\ chan' = [chan EXCEPT ![ws] = "dead"]
    /\ UNCHANGED <<aux, sessions, changes, currentVersion, storage, SYNC_SECRET, now>>

\* what webSocketClose leaves: the session gone, presence sent to the rest
closed(ws) ==
    IF ws \in DOMAIN sessions
    THEN Unchanged(delete(sessions, ws), broadcastPresence(delete(sessions, ws)))
    ELSE Unchanged(sessions, <<>>)

webSocketClose(ws) ==
    /\ chan[ws] \in {"open", "dead"}
    /\ chan' = [chan EXCEPT ![ws] = "closed"]
    /\ sessions' = closed(ws).sessions
    /\ UNCHANGED <<aux, changes, currentVersion, storage, SYNC_SECRET, now>>

\* what webSocketError leaves: the session gone, nothing sent
errored(ws) == Unchanged(delete(sessions, ws), <<>>)

webSocketError(ws) ==
    /\ chan[ws] \in {"open", "dead"}
    /\ chan' = [chan EXCEPT ![ws] = "dead"]
    /\ sessions' = errored(ws).sessions
    /\ UNCHANGED <<aux, changes, currentVersion, storage, SYNC_SECRET, now>>

\* the constructor on a fresh instance of the same Durable Object (a restart):
\* the fields start at their defaults and the stored values are loaded
restored ==
    [sessions |-> <<>>,
     currentVersion |-> IF get(storage, "version") # Undefined
                        THEN get(storage, "version")[1] ELSE 0,
     changes |-> IF get(storage, "changes") # Undefined
                 THEN get(storage, "changes")[1] ELSE <<>>]

constructor ==
    /\ sessions' = restored.sessions
    /\ currentVersion' = restored.currentVersion
    /\ changes' = restored.changes
    /\ UNCHANGED <<aux, storage, SYNC_SECRET, chan, now>>

Tick ==
    /\ now < MaxTime
    /\ now' = now + 1
    /\ UNCHANGED <<aux, sessions, changes, currentVersion, storage, SYNC_SECRET, chan>>

\* ---------------------------------------------------------------- behaviours
Init ==
    /\ sessions = <<>>
    /\ changes = <<>>
    /\ currentVersion = 0
    /\ storage = EmptyStorage
    /\ SYNC_SECRET \in {"", "k1"}
    /\ chan = [w \in WS |-> "free"]
    /\ now = 0
    /\ room = OwnWorkspace
    /\ parked = [i \in {idFromName(w) : w \in Workspaces} |-> FreshInstance]
    /\ inflight = [c \in Callers |-> Idle]
    /\ cursor = [since |-> 0, got |-> <<>>]

Next ==
    \/ \E ws \in WS : handleWebSocket(ws)
    \/ \E ws \in WS : RecvAuth(ws)
    \/ \E ws \in WS : RecvJoin(ws)
    \/ \E ws \in WS : RecvLeave(ws)
    \/ \E ws \in WS : RecvPush(ws)
    \/ \E ws \in WS : RecvPull(ws)
    \/ \E ws \in WS : RecvAck(ws)
    \/ \E ws \in WS : RecvMalformed(ws)
    \/ \E ws \in WS : ChannelDies(ws)
    \/ \E ws \in WS : webSocketClose(ws)
    \/ \E ws \in WS : webSocketError(ws)
    \/ fetchGetChanges
    \/ fetchPostChanges
    \/ constructor

\* the clock stands still
Spec == Init /\ [][Next]_vars

\* the clock ticks
SpecClock == Init /\ [][Next \/ Tick]_vars

\* ---------------------------------------------------------------- workspaces
\* the fields of the running instance
Running ==
    [sessions |-> sessions, changes |-> changes, currentVersion |-> currentVersion,
     storage |-> storage]

\* the instance behind the route of workspace w, as it is now
StateOf(w) ==
    IF idFromName(w) = idFromName(room) THEN Running ELSE parked[idFromName(w)]

\* the router's sync route: the next request names workspace w and goes to
\* the instance env.SYNC_ROOM.get(idFromName(w))
Route(w) ==
    /\ w # room
    /\ room' = w
    /\ LET left == [parked EXCEPT ![idFromName(room)] = Running]
           inst == left[idFromName(w)]
       IN /\ sessions' = inst.sessions
          /\ changes' = inst.changes
          /\ currentVersion' = inst.currentVersion
          /\ storage' = inst.storage
          /\ parked' = [left EXCEPT ![idFromName(w)] = FreshInstance]
    /\ UNCHANGED <<SYNC_SECRET, chan, now, inflight, cursor>>

\* the events of a socket go to the instance that accepted it
Here(ws) == \A i \in DOMAIN parked : ws \notin DOMAIN parked[i].sessions

\* the version counters of all instances together
RECURSIVE SumVersions(_)
SumVersions(ids) ==
    IF ids = {} THEN 0
    ELSE LET i == CHOOSE x \in ids : TRUE
         IN parked[i].currentVersion + SumVersions(ids \ {i})

TotalVersion == currentVersion + SumVersions(DOMAIN parked)

\* the running instance has written all it holds
Stored ==
    /\ get(storage, "changes") = <<changes>>
    /\ get(storage, "version") = <<currentVersion>>

\* the operations of one instance at a time, over the instances of all routes;
\* the pushes are those whose writes succeed, and they stop once the counters
\* together would pass MaxVersion
NextRooms ==
    \/ \E w \in Workspaces : Route(w)
    \/ \E ws \in WS : Here(ws) /\ handleWebSocket(ws)
    \/ \E ws \in WS : Here(ws) /\ RecvAuth(ws)
    \/ \E ws \in WS : Here(ws) /\ RecvJoin(ws)
    \/ \E ws \in WS : Here(ws) /\ RecvLeave(ws)
    \/ \E ws \in WS : Here(ws) /\ RecvPush(ws) /\ Stored' /\ TotalVersion' <= MaxVersion
    \/ \E ws \in WS : Here(ws) /\ RecvPull(ws)
    \/ \E ws \in WS : Here(ws) /\ webSocketClose(ws)
    \/ fetchPostChanges /\ Stored' /\ TotalVersion' <= MaxVersion
    \/ constructor

SpecRooms == Init /\ [][NextRooms]_vars

\* ---------------------------------------------------------------- pushes in flight
\* A handler runs until it awaits. fetch awaits request.json() before it
\* calls applyChanges (stage "body"); applyChanges runs its for-loop and then
\* awaits its two storage.put calls (stage "put").

\* (mutant) events are delivered while a storage.put is pending
InputGateAlwaysOpen == TRUE

\* the input gate of the Durable Object: while a storage operation of the
\* instance is pending, no other event is delivered to it
InputGateOpen == \A c \in Callers : inflight[c].stage # "put"

\* the for-loop of applyChanges on the batch of caller c; a batch that makes
\* the loop throw ends its handler there
startPut(c, batch) ==
    LET a == assignVersions(batch.items, currentVersion, changes)
    IN /\ currentVersion' = a.currentVersion
       /\ changes' = a.changes
       /\ inflight' = [inflight EXCEPT ![c] =
                          IF a.thrown THEN Idle
                          ELSE [stage |-> "put", batch |-> batch,
                                first |-> currentVersion]]

\* webSocketMessage with a push, up to the first await of applyChanges
PushArrives(ws) ==
    /\ InputGateOpen
    /\ chan[ws] # "free"
    /\ ws \in DOMAIN sessions
    /\ Joined(sessions[ws])
    /\ inflight[ws].stage = "idle"
    /\ \E batch \in Batches :
           /\ batch.iterable
           /\ Fits(batch)
           /\ startPut(ws, batch)
    /\ sessions' = [sessions EXCEPT ![ws].lastSeen = now]
    /\ UNCHANGED <<storage, SYNC_SECRET, chan, now, room, parked, cursor>>

\* fetch for POST /changes with a credential that verifies, up to
\* await request.json()
PostArrives ==
    /\ InputGateOpen
    /\ inflight[Stateless].stage = "idle"
    /\ \E header \in AuthHeaders, batch \in Batches :
           /\ header.bearer
           /\ verifyToken(header.token, OrElse(SYNC_SECRET, ""), now) # NullPayload
           /\ batch.iterable
           /\ inflight' = [inflight EXCEPT ![Stateless] =
                              [stage |-> "body", batch |-> batch, first |-> 0]]
    /\ UNCHANGED <<sessions, changes, currentVersion, storage, SYNC_SECRET, chan,
                   now, room, parked, cursor>>

\* the body has arrived: fetch goes on into applyChanges
PostBodyRead ==
    /\ InputGateOpen
    /\ inflight[Stateless].stage = "body"
    /\ Fits(inflight[Stateless].batch)
    /\ startPut(Stateless, inflight[Stateless].batch)
    /\ UNCHANGED <<sessions, storage, SYNC_SECRET, chan, now, room, parked, cursor>>

\* what the handler of caller c does once its puts are over: the rest of
\* applyChanges, then the answer and the broadcast, which read
\* this.currentVersion as it is by then; a put that throws ends the handler,
\* in the catch of webSocketMessage or as the failure of fetch
finishPut(c, fail) ==
    LET st1 == put(storage, "version", currentVersion)
        st2 == put(st1, "changes", changes)
        message == [type |-> "changes",
                    changes |-> Stamped(inflight[c].batch, inflight[c].first),
                    version |-> currentVersion]
        caught == IF c = Stateless THEN <<>> ELSE sendError(c, "PARSE_ERROR")
        failed == IF c = Stateless THEN [status |-> 500] ELSE NoResponse
    IN IF fail = "version"
       THEN Result(sessions, changes, currentVersion, storage, caught, failed, TRUE)
       ELSE IF fail = "changes"
       THEN Result(sessions, changes, currentVersion, st1, caught, failed, TRUE)
       ELSE IF c = Stateless
       THEN Result(sessions, changes, currentVersion, st2,
                   broadcast(sessions, message),
                   [status |-> 200, success |-> TRUE, version |-> currentVersion],
                   FALSE)
       ELSE Result(sessions, changes, currentVersion, st2,
                   send(c, [type |-> "pushed", version |-> currentVersion])
                       \o broadcastExcept(sessions, c, message),
                   NoResponse, FALSE)

PutsFinish(c) ==
    /\ inflight[c].stage = "put"
    /\ \E fail \in {"none", "version", "changes"} :
           storage' = finishPut(c, fail).storage
    /\ inflight' = [inflight EXCEPT ![c] = Idle]
    /\ UNCHANGED <<sessions, changes, currentVersion, SYNC_SECRET, chan, now,
                   room, parked, cursor>>

\* the events of an instance whose pushes take their awaits one at a time
NextInFlight ==
    \/ \E ws \in WS : InputGateOpen /\ handleWebSocket(ws)
    \/ \E ws \in WS : InputGateOpen /\ RecvAuth(ws)
    \/ \E ws \in WS : InputGateOpen /\ RecvJoin(ws)
    \/ \E ws \in WS : InputGateOpen /\ webSocketClose(ws)
    \/ \E ws \in WS : PushArrives(ws)
    \/ PostArrives
    \/ PostBodyRead
    \/ \E c \in Callers : PutsFinish(c)

SpecInFlight == Init /\ [][NextInFlight]_vars

\* a storage.put that was started resolves or throws
SpecInFlightFair == SpecInFlight /\ \A c \in Callers : WF_vars(PutsFinish(c))

\* ---------------------------------------------------------------- a pulling client
\* a client that pulls with the version of its previous answer, through the
\* session it holds at the time, and keeps the records it is sent
ClientPulls(ws) ==
    /\ chan[ws] # "free"
    /\ ws \in DOMAIN sessions
    /\ Joined(sessions[ws])
    /\ LET r == webSocketMessage(ws, [type |-> "pull",
                                      sinceVersion |-> Num(cursor.since)], "none")
           answer == r.sent[1].msg
       IN /\ sessions' = r.sessions
          /\ cursor' = [since |-> answer.version,
                        got |-> cursor.got \o answer.changes]
    /\ UNCHANGED <<changes, currentVersion, storage, SYNC_SECRET, chan, now, room,
                   parked, inflight>>

NextPuller ==
    \/ \E ws \in WS : handleWebSocket(ws)
    \/ \E ws \in WS : RecvAuth(ws)
    \/ \E ws \in WS : RecvJoin(ws)
    \/ \E ws \in WS : RecvPush(ws)
    \/ \E ws \in WS : ClientPulls(ws)
    \/ constructor

SpecPuller == Init /\ [][NextPuller]_vars

\* ---------------------------------------------------------------- properties
PushMsg(batch) == [type |-> "push", changes |-> batch]
PullMsg(since) == [type |-> "pull", sinceVersion |-> since]

\* the sends of result r that go to w and carry a message of the given type
Sends(r, w, type) == {i \in DOMAIN r.sent : r.sent[i].to = w /\ r.sent[i].msg.type = type}

\* the sessions the handlers accept pushes and pulls from
JoinedSessions == {w \in DOMAIN sessions : Joined(sessions[w])}

\* batches of records only, short enough for the version bound
RecordBatches == {b \in Batches : AllRecords(b) /\ Fits(b)}

IsPrefix(p, q) == Len(p) <= Len(q) /\ \A i \in 1..Len(p) : p[i] = q[i]

\* C1: the versions of the records in the change log are exactly
\* 1..currentVersion, each once, in log order.
C1_VersionsAreOneToCurrent ==
    /\ Len(changes) = currentVersion
    /\ \A i \in 1..Len(changes) : changes[i].version = i

\* C2: the log is append-only and a stored record keeps its version and its
\* place: every step, a restart included, leaves the old log a prefix of the
\* new one.
C2_LogOnlyGrows == [][IsPrefix(changes, changes')]_vars

\* after result r, storage holds a counter of at least v and every record of
\* the log whose version is in 1..v
Persisted(r, v) ==
    /\ get(r.storage, "version") # Undefined
    /\ get(r.storage, "version")[1] >= v
    /\ \A i \in 1..Len(r.changes) :
           r.changes[i].version <= v =>
               /\ get(r.storage, "changes") # Undefined
               /\ \E j \in 1..Len(get(r.storage, "changes")[1]) :
                      get(r.storage, "changes")[1][j] = r.changes[i]

ValidHeaders == {h \in AuthHeaders : h.bearer}

\* C3: whenever a push is acknowledged - a `pushed` message over the channel,
\* a success response to POST /changes - with version v, durable storage
\* already holds a counter >= v and every record with a version in 1..v.
C3_PersistedBeforeAck ==
    /\ \A ws \in DOMAIN sessions, b \in {x \in Batches : Fits(x)}, fail \in {"none", "version", "changes"} :
           LET r == webSocketMessage(ws, PushMsg(b), fail)
           IN \A i \in DOMAIN r.sent :
                  r.sent[i].msg.type = "pushed" => Persisted(r, r.sent[i].msg.version)
    /\ \A h \in AuthHeaders, b \in {x \in Batches : Fits(x)}, fail \in {"none", "version", "changes"} :
           LET r == fetchPost(h, b, fail)
           IN r.response.status = 200 => Persisted(r, r.response.version)

\* a push was acknowledged here: the whole log is in storage
C3_Witness ==
    /\ JoinedSessions # {}
    /\ currentVersion = 2
    /\ Len(changes) = 2
    /\ get(storage, "changes") = <<changes>>
    /\ get(storage, "version") = <<2>>

\* C4: when a storage write fails during a push, the sender gets no `pushed`,
\* nobody gets a `changes` broadcast, and the caller is told of the failure:
\* an error message on the channel, a server-error response to POST /changes.
C4_FailedWriteIsNotAcknowledged ==
    /\ \A ws \in JoinedSessions, b \in RecordBatches, fail \in {"version", "changes"} :
           LET r == webSocketMessage(ws, PushMsg(b), fail)
           IN /\ \A i \in DOMAIN r.sent : r.sent[i].msg.type \notin {"pushed", "changes"}
              /\ Cardinality(Sends(r, ws, "error")) = 1
              /\ \A i \in DOMAIN r.sent : r.sent[i].to = ws
    /\ \A h \in ValidHeaders, b \in RecordBatches, fail \in {"version", "changes"} :
           LET r == fetchPost(h, b, fail)
           IN r.response.status # 401 =>
                  /\ r.sent = <<>>
                  /\ r.response.status = 500

\* a push has met a failing write of the log: the counter was stored, the log
\* was not, and the instance carries on with a second session joined
C4_Witness ==
    /\ Cardinality(JoinedSessions) = 2
    /\ get(storage, "version") = <<1>>
    /\ get(storage, "changes") = Undefined
    /\ Len(changes) = 1

\* C5: a restart reloads the log and the counter as they were, so a pull
\* answers after it as before it, and it starts with no sessions.
C5_RestartKeepsLogAndVersion ==
    /\ restored.changes = changes
    /\ restored.currentVersion = currentVersion
    /\ restored.sessions = <<>>

\* C6: a push of n records by a joined session at currentVersion = c appends
\* the i-th submitted record with version c + i, in the order submitted, and
\* sets currentVersion to c + n; when the storage writes succeed the sender is
\* sent exactly one `pushed`, carrying c + n, and storage holds the new log.
C6_PushAssignsNextVersions ==
    \A ws \in JoinedSessions, b \in RecordBatches, fail \in {"none", "version", "changes"} :
        LET r == webSocketMessage(ws, PushMsg(b), fail)
            n == Len(b.items)
            c == currentVersion
        IN /\ Len(r.changes) = Len(changes) + n
           /\ IsPrefix(changes, r.changes)
           /\ \A i \in 1..n :
                  /\ r.changes[Len(changes) + i].id = b.items[i].id
                  /\ r.changes[Len(changes) + i].version = c + i
           /\ r.currentVersion = c + n
           /\ \A w \in WS : w # ws => Sends(r, w, "pushed") = {}
           /\ fail = "none" =>
                  /\ Cardinality(Sends(r, ws, "pushed")) = 1
                  /\ \A i \in Sends(r, ws, "pushed") : r.sent[i].msg.version = c + n
                  /\ get(r.storage, "changes") = <<r.changes>>
                  /\ get(r.storage, "version") = <<c + n>>

\* two different records were pushed and stored, in this order
C6_Witness ==
    /\ JoinedSessions # {}
    /\ currentVersion = 2
    /\ Len(changes) = 2
    /\ changes[1].id = "r2" /\ changes[2].id = "r1"
    /\ get(storage, "changes") = <<changes>>

\* C7: on a successful push over the channel, each joined session other than
\* the sender is sent exactly one `changes` message, holding the batch with
\* its assigned versions and the new currentVersion; the sender and every
\* session that is not joined are sent none.
C7_BroadcastToOtherJoined ==
    \A ws \in JoinedSessions, b \in RecordBatches :
        LET r == webSocketMessage(ws, PushMsg(b), "none")
            n == Len(b.items)
        IN \A w \in WS :
               /\ Cardinality(Sends(r, w, "changes")) =
                      IF w \in JoinedSessions /\ w # ws THEN 1 ELSE 0
               /\ \A i \in Sends(r, w, "changes") :
                      /\ r.sent[i].msg.version = currentVersion + n
                      /\ Len(r.sent[i].msg.changes) = n
                      /\ \A k \in 1..n :
                             /\ r.sent[i].msg.changes[k].id = b.items[k].id
                             /\ r.sent[i].msg.changes[k].version = currentVersion + k

\* a push went through while two sessions were joined
C7_Witness ==
    /\ Cardinality(JoinedSessions) = 2
    /\ Len(changes) >= 1
    /\ get(storage, "changes") = <<changes>>

StrictlyIncreasing(q) == \A i, j \in 1..Len(q) : i < j => q[i].version < q[j].version

\* q holds exactly the records of log whose version is over v, in log order
ExactlyTheLater(q, log, v) ==
    /\ \A i \in 1..Len(q) : q[i].version > v
    /\ LET idx == {i \in 1..Len(log) : log[i].version > v}
       IN /\ Len(q) = Cardinality(idx)
          /\ \A i \in idx : q[Cardinality({j \in idx : j <= i})] = log[i]

\* C8: pull(sinceVersion = v) by a joined session is answered with exactly
\* the log records whose version is over v, in strictly increasing version
\* order, and with currentVersion; GET /changes?since=v answers the same.
C8_PullReturnsLaterRecords ==
    /\ \A ws \in JoinedSessions, v \in 0..MaxVersion :
           LET r == webSocketMessage(ws, PullMsg(Num(v)), "none")
           IN /\ Len(r.sent) = 1
              /\ r.sent[1].to = ws
              /\ r.sent[1].msg.type = "changes"
              /\ ExactlyTheLater(r.sent[1].msg.changes, changes, v)
              /\ StrictlyIncreasing(r.sent[1].msg.changes)
              /\ r.sent[1].msg.version = currentVersion
    /\ \A v \in 0..MaxVersion :
           LET r == fetchGet([kind |-> "int", n |-> v])
           IN /\ r.response.status = 200
              /\ ExactlyTheLater(r.response.changes, changes, v)
              /\ StrictlyIncreasing(r.response.changes)
              /\ r.response.version = currentVersion

\* a joined session can pull here, and pull(1) is answered with one record of two
C8_Witness ==
    /\ JoinedSessions # {}
    /\ Len(changes) = 2
    /\ \E ws \in JoinedSessions :
           Len(webSocketMessage(ws, PullMsg(Num(1)), "none").sent[1].msg.changes) = 1

\* authentication and join state of a session
Identity(session) == <<session.accountId, session.siteId, session.workspaceId>>

\* C9: a pull changes nothing - the log, currentVersion, storage, and every
\* session's authentication and join state stay as they are - it sends
\* nothing to anyone but the caller, and a second pull with the same
\* sinceVersion is answered as the first; GET /changes likewise.
C9_PullHasNoSideEffects ==
    /\ \A ws \in DOMAIN sessions, since \in SinceVersions :
           LET r == webSocketMessage(ws, PullMsg(since), "none")
           IN /\ r.changes = changes
              /\ r.currentVersion = currentVersion
              /\ r.storage = storage
              /\ DOMAIN r.sessions = DOMAIN sessions
              /\ \A w \in DOMAIN sessions : Identity(r.sessions[w]) = Identity(sessions[w])
              /\ \A i \in DOMAIN r.sent : r.sent[i].to = ws
              /\ handlePull(ws, r.sessions, since).sent = r.sent
    /\ \A param \in SinceParams :
           LET r == fetchGet(param)
           IN /\ r.changes = changes
              /\ r.currentVersion = currentVersion
              /\ r.storage = storage
              /\ r.sessions = sessions
              /\ r.sent = <<>>

\* a joined session can pull a log that has records
C9_Witness ==
    /\ JoinedSessions # {}
    /\ Len(changes) >= 1
    /\ \E w \in DOMAIN sessions : ~Joined(sessions[w])

\* C10: push and pull from a session that has not joined are answered with
\* NOT_JOINED (or NOT_AUTHENTICATED when it has not authenticated either),
\* join from a session that has not authenticated with NOT_AUTHENTICATED;
\* the log, currentVersion, storage and the session's workspaceId stay as
\* they are.
C10_PreconditionErrors ==
    \A ws \in DOMAIN sessions :
        /\ ~Joined(sessions[ws]) =>
               \A m \in {x \in Messages : x.type \in {"push", "pull"}} :
                   LET r == webSocketMessage(ws, m, "none")
                   IN /\ Len(r.sent) = 1
                      /\ r.sent[1].to = ws
                      /\ r.sent[1].msg.type = "error"
                      /\ r.sent[1].msg.code \in
                             IF Truthy(sessions[ws].accountId)
                             THEN {"NOT_JOINED"}
                             ELSE {"NOT_JOINED", "NOT_AUTHENTICATED"}
                      /\ r.changes = changes
                      /\ r.currentVersion = currentVersion
                      /\ r.storage = storage
                      /\ r.sessions[ws].workspaceId = sessions[ws].workspaceId
        /\ ~Truthy(sessions[ws].accountId) =>
               \A m \in {x \in Messages : x.type = "join"} :
                   LET r == webSocketMessage(ws, m, "none")
                   IN /\ Len(r.sent) = 1
                      /\ r.sent[1].to = ws
                      /\ r.sent[1].msg.type = "error"
                      /\ r.sent[1].msg.code = "NOT_AUTHENTICATED"
                      /\ r.changes = changes
                      /\ r.currentVersion = currentVersion
                      /\ r.storage = storage
                      /\ r.sessions[ws].workspaceId = sessions[ws].workspaceId

\* one session has not authenticated, another has authenticated and not
\* joined, and the log has a record
C10_Witness ==
    /\ \E w \in DOMAIN sessions : ~Truthy(sessions[w].accountId)
    /\ \E w \in DOMAIN sessions :
           Truthy(sessions[w].accountId) /\ sessions[w].workspaceId = Null
    /\ Len(changes) >= 1

\* C11: the versions stored, acknowledged and broadcast for a pushed batch do
\* not depend on the version fields the client sent: the same batch with other
\* client versions leaves the same log, counter and storage and the same
\* messages, over the channel and over POST /changes.
C11_ClientVersionsAreIgnored ==
    \A b \in {x \in Batches : x.iterable /\ Fits(x)}, fail \in {"none", "version", "changes"} :
        \A v \in [1..Len(b.items) -> ClientVersions] :
            /\ \A ws \in DOMAIN sessions :
                   webSocketMessage(ws, PushMsg(WithClientVersions(b, v)), fail)
                       = webSocketMessage(ws, PushMsg(b), fail)
            /\ \A h \in AuthHeaders :
                   fetchPost(h, WithClientVersions(b, v), fail) = fetchPost(h, b, fail)

\* r1 was pushed with client version 7 and is stored with version 1, with a
\* second session joined to be sent it
C11_Witness ==
    /\ Cardinality(JoinedSessions) = 2
    /\ Len(changes) >= 1
    /\ changes[1].id = "r1"
    /\ changes[1].version = 1
    /\ changes[1].version # ClientVersion("r1")
    /\ get(storage, "changes") = <<changes>>

\* result r holds exactly one send of a message of this type to w, and the
\* socket took it
Delivered(r, w, type) ==
    /\ Cardinality(Sends(r, w, type)) = 1
    /\ \A i \in Sends(r, w, type) : r.sent[i].ok

\* the sessions of registry ss that a broadcast goes to and whose socket works
OpenJoined(ss) == {w \in DOMAIN ss : Truthy(ss[w].workspaceId) /\ chan[w] = "open"}

Malformed ==
    {[type |-> "<unparsable>"]}
        \cup {PushMsg(b) : b \in {x \in Batches : ~AllRecords(x) /\ Fits(x)}}

\* C13: a malformed inbound message is dropped: its sender is sent one
\* PARSE_ERROR and nothing else is sent, the registry keeps every session with
\* its authentication and join state, and the log, currentVersion and storage
\* stay as they are.
C13_MalformedIsDropped ==
    \A ws \in JoinedSessions, m \in Malformed :
        LET r == webSocketMessage(ws, m, "none")
        IN /\ Len(r.sent) = 1
           /\ r.sent[1].to = ws
           /\ r.sent[1].msg.type = "error"
           /\ r.sent[1].msg.code = "PARSE_ERROR"
           /\ DOMAIN r.sessions = DOMAIN sessions
           /\ \A w \in DOMAIN sessions : Identity(r.sessions[w]) = Identity(sessions[w])
           /\ r.changes = changes
           /\ r.currentVersion = currentVersion
           /\ r.storage = storage

\* a token the coordinator has no reason to accept: not of the two-part shape,
\* past its exp, or signed with a key that is not the coordinator's secret
InvalidTokens == {t \in Tokens : t.parts # 2 \/ t.exp < now \/ t.key # SYNC_SECRET}

\* C14: auth with an invalid or expired token sends AUTH_FAILED to that
\* session and nothing to anyone else, keeps every session in the registry,
\* and leaves the log, currentVersion and storage as they are.
C14_AuthFailureChangesNothing ==
    \A ws \in DOMAIN sessions, t \in InvalidTokens :
        LET r == webSocketMessage(ws, [type |-> "auth", token |-> t], "none")
        IN /\ Len(r.sent) = 1
           /\ r.sent[1].to = ws
           /\ r.sent[1].msg.type = "error"
           /\ r.sent[1].msg.code = "AUTH_FAILED"
           /\ DOMAIN r.sessions = DOMAIN sessions
           /\ \A w \in DOMAIN sessions \ {ws} : r.sessions[w] = sessions[w]
           /\ r.changes = changes
           /\ r.currentVersion = currentVersion
           /\ r.storage = storage

\* the coordinator has a secret, the log has a stored record, one session is
\* joined and another one, connected and not authenticated, can send auth
C14_Witness ==
    /\ SYNC_SECRET = "k1"
    /\ Len(changes) >= 1
    /\ get(storage, "changes") = <<changes>>
    /\ \E w \in JoinedSessions : chan[w] = "open"
    /\ \E w \in DOMAIN sessions : ~Truthy(sessions[w].accountId) /\ chan[w] = "open"
    /\ Cardinality(InvalidTokens) = 3

\* C15: an error message goes to the session whose inbound message caused it
\* and to nobody else, and a message whose handling ends in an error makes
\* the coordinator send nothing at all to any other session; a POST /changes
\* that is refused or fails sends nothing to any session.
C15_ErrorsGoToTheSenderOnly ==
    /\ \A ws \in {w \in WS : chan[w] # "free"}, fail \in {"none", "version", "changes"} :
           \A m \in {x \in Messages : x.type = "push" => Fits(x.changes)} :
               LET r == webSocketMessage(ws, m, fail)
               IN /\ \A i \in DOMAIN r.sent :
                         r.sent[i].msg.type = "error" => r.sent[i].to = ws
                  /\ (\E i \in DOMAIN r.sent : r.sent[i].msg.type = "error") =>
                         \A i \in DOMAIN r.sent : r.sent[i].to = ws
    /\ \A h \in AuthHeaders, b \in {x \in Batches : Fits(x)}, fail \in {"none", "version", "changes"} :
           LET r == fetchPost(h, b, fail)
           IN r.response.status # 200 => r.sent = <<>>

\* two sessions are joined and can be sent to, and a push has already failed
\* at its first storage write: the log is ahead of an empty storage
C15_Witness ==
    /\ Cardinality(JoinedSessions) = 2
    /\ \A w \in JoinedSessions : chan[w] = "open"
    /\ currentVersion < MaxVersion
    /\ Len(changes) >= 1
    /\ get(storage, "version") = Undefined

C17_LeaveKeepsTheSession ==
    \A ws \in DOMAIN sessions :
        LET r == webSocketMessage(ws, [type |-> "leave"], "none")
        IN /\ DOMAIN r.sessions = DOMAIN sessions
           /\ r.sessions[ws].workspaceId = Null
           /\ r.sessions[ws].accountId = sessions[ws].accountId
           /\ r.sessions[ws].siteId = sessions[ws].siteId
           /\ \A w \in DOMAIN sessions \ {ws} : r.sessions[w] = sessions[w]
           /\ \A b \in {x \in Batches : Fits(x)} :
                  handlePush(ws, r.sessions, b, "none").sent = sendError(ws, "NOT_JOINED")
           /\ \A since \in SinceVersions :
                  handlePull(ws, r.sessions, since).sent = sendError(ws, "NOT_JOINED")
           /\ Truthy(sessions[ws].accountId) =>
                  \A wid \in WorkspaceIds :
                      LET r2 == handleJoin(ws, r.sessions, wid)
                      IN /\ Cardinality(Sends(r2, ws, "joined")) = 1
                         /\ Sends(r2, ws, "error") = {}
                         /\ Truthy(wid) => Joined(r2.sessions[ws])
           /\ Sends(r, ws, "presence") = {}
           /\ \A w \in JoinedSessions \ {ws} :
                  /\ Cardinality(Sends(r, w, "presence")) = 1
                  /\ \A i \in Sends(r, w, "presence") :
                         /\ r.sent[i].msg.members = members(delete(sessions, ws))
                         /\ Len(r.sent[i].msg.members) = Cardinality(JoinedSessions \ {ws})

\* one session is joined and connected, another one is authenticated with no
\* workspaceId, as a leave leaves it, and the log has a stored record
C17_Witness ==
    /\ \E w \in JoinedSessions : chan[w] = "open"
    /\ \E w \in DOMAIN sessions :
           /\ Truthy(sessions[w].accountId)
           /\ sessions[w].workspaceId = Null
           /\ chan[w] = "open"
    /\ Len(changes) >= 1
    /\ get(storage, "version") = <<currentVersion>>

\* what each of join, leave, channel close and channel error by session ws
\* leaves behind
MembershipChanges(ws) ==
    {webSocketMessage(ws, [type |-> "join", workspaceId |-> wid], "none") :
         wid \in IF Truthy(sessions[ws].accountId) THEN WorkspaceIds ELSE {}}
        \cup {webSocketMessage(ws, [type |-> "leave"], "none"), closed(ws), errored(ws)}

\* C18: after every join, leave, channel close and channel error each session
\* that is joined then is sent one presence message, and its members are
\* exactly the sessions that are authenticated and joined then.
C18_PresenceTracksJoined ==
    \A ws \in DOMAIN sessions : \A r \in MembershipChanges(ws) :
        LET joinedAfter == {w \in DOMAIN r.sessions : Joined(r.sessions[w])}
        IN /\ \A i \in DOMAIN r.sent :
                  r.sent[i].msg.type = "presence" =>
                      /\ Len(r.sent[i].msg.members) = Cardinality(joinedAfter)
                      /\ \A w \in joinedAfter :
                             \E k \in DOMAIN r.sent[i].msg.members :
                                 r.sent[i].msg.members[k] = PresenceMember(r.sessions[w])
           /\ \A w \in joinedAfter : Cardinality(Sends(r, w, "presence")) = 1

\* a request carries a valid bearer credential: a Bearer header whose token
\* is none of the invalid ones
ValidCredential(h) == h.bearer /\ h.token \notin InvalidTokens

\* C19: POST /changes without a valid bearer credential is answered 401 and
\* changes and sends nothing; with one it leaves the log, counter and storage
\* that the same push over the channel leaves, and for a batch of n records at
\* currentVersion = c it appends them with versions c+1..c+n, sends each
\* joined session one `changes` message with the batch, and answers success
\* with version c + n.
C19_StatelessPush ==
    \A h \in AuthHeaders, b \in {x \in Batches : Fits(x)}, fail \in {"none", "version", "changes"} :
        LET r == fetchPost(h, b, fail)
            n == Len(b.items)
            c == currentVersion
        IN /\ ~ValidCredential(h) =>
                  /\ r.response.status = 401
                  /\ r.changes = changes
                  /\ r.currentVersion = currentVersion
                  /\ r.storage = storage
                  /\ r.sessions = sessions
                  /\ r.sent = <<>>
           /\ ValidCredential(h) =>
                  /\ \A ws \in JoinedSessions :
                         LET p == webSocketMessage(ws, PushMsg(b), fail)
                         IN /\ r.changes = p.changes
                            /\ r.currentVersion = p.currentVersion
                            /\ r.storage = p.storage
                  /\ (AllRecords(b) /\ fail = "none") =>
                         /\ r.response = [status |-> 200, success |-> TRUE, version |-> c + n]
                         /\ r.currentVersion = c + n
                         /\ r.changes = changes \o Stamped(b, c)
                         /\ get(r.storage, "changes") = <<r.changes>>
                         /\ get(r.storage, "version") = <<c + n>>
                         /\ \A w \in WS :
                                /\ Cardinality(Sends(r, w, "changes")) =
                                       IF w \in JoinedSessions THEN 1 ELSE 0
                                /\ \A i \in Sends(r, w, "changes") :
                                       /\ r.sent[i].msg.changes = Stamped(b, c)
                                       /\ r.sent[i].msg.version = c + n
                         /\ \A i \in DOMAIN r.sent : r.sent[i].msg.type = "changes"

\* the log holds a stored record that only POST /changes can have brought:
\* the one session ever connected has not authenticated
C19_Witness ==
    /\ chan[2] = "free"
    /\ 1 \in DOMAIN sessions
    /\ sessions[1].accountId = ""
    /\ Len(changes) >= 1
    /\ currentVersion = Len(changes)
    /\ get(storage, "changes") = <<changes>>

\* C20: the stateless operations act only for a request with a valid bearer
\* credential: without one GET /changes returns no record of the log and POST
\* /changes appends none. (fetch reads no header on the GET path: its answer
\* is the same for every header.)
C20_StatelessNeedsCredential ==
    \A h \in AuthHeaders :
        ~ValidCredential(h) =>
            /\ \A param \in SinceParams :
                   LET r == fetchGet(param)
                   IN r.response.status = 200 => r.response.changes = <<>>
            /\ \A b \in {x \in Batches : Fits(x)} :
                   fetchPost(h, b, "none").changes = changes

\* what an operation on the running instance can leave behind: a message on a
\* socket of the instance, a POST /changes, a socket closing
OperationsHere ==
    {webSocketMessage(ws, m, "none") :
         ws \in {w \in WS : chan[w] # "free" /\ Here(w)},
         m \in {x \in Messages : x.type = "push" => Fits(x.changes)}}
        \cup {fetchPost(h, b, "none") : h \in AuthHeaders, b \in RecordBatches}
        \cup {closed(ws) : ws \in {w \in WS : chan[w] # "free" /\ Here(w)}}

\* no operation on the running instance sends to a session of the instance of
\* another workspace
NoCrossSends ==
    \A w \in Workspaces \ {room} : \A r \in OperationsHere :
        \A i \in DOMAIN r.sent : r.sent[i].to \notin DOMAIN StateOf(w).sessions

\* C21: workspaces are independent: every operation on the instance of one
\* workspace (push, pull, join, leave, close, restart) leaves the log,
\* currentVersion, storage and registry of the instance of every other
\* workspace as they were and sends nothing to a session of that instance.
C21_WorkspacesAreIndependent ==
    /\ []NoCrossSends
    /\ [][room' = room => \A w \in Workspaces \ {room} : StateOf(w)' = StateOf(w)]_vars

\* the instances of two workspaces each hold a session and a stored record,
\* and their logs differ
C21_Witness ==
    /\ room = "X"
    /\ Len(changes) = 1
    /\ Stored
    /\ sessions # <<>>
    /\ parked[idFromName(OwnWorkspace)].sessions # <<>>
    /\ Len(parked[idFromName(OwnWorkspace)].changes) = 1
    /\ parked[idFromName(OwnWorkspace)].changes # changes

\* accounts and secrets for the token functions
AccountIds == Accounts \cup {"a2"}
Secrets == {"k1", "dev-secret"}

\* a token made with secret s at time t verifies against s, then and until its
\* exp, to a payload with the account it was made for
RoundTrip(a, s, t) ==
    LET token == generateToken(a, s, t)
    IN /\ verifyToken(token, s, t) # NullPayload
       /\ verifyToken(token, s, t).accountId = a
       /\ verifyToken(token, s, t + TOKEN_EXPIRY_HOURS * 3600) # NullPayload

\* verifyToken answers null for another secret, for a token that is not of
\* the two-part shape, and for a token whose exp has passed
Refusals(a, s, t) ==
    LET token == generateToken(a, s, t)
    IN /\ \A s2 \in (Secrets \cup {""}) \ {s} : verifyToken(token, s2, t) = NullPayload
       /\ \A n \in {1, 3} : verifyToken([token EXCEPT !.parts = n], s, t) = NullPayload
       /\ verifyToken(token, s, t + TOKEN_EXPIRY_HOURS * 3600 + 1) = NullPayload
       /\ verifyToken(Token(a, t - 1, s), s, t) = NullPayload

Block(c) ==
    SelectSeq(changes,
              LAMBDA r : /\ r.version > inflight[c].first
                         /\ r.version <= inflight[c].first + Len(inflight[c].batch.items))

\* the versions the handler of c reports when its puts succeed: in its pushed
\* message or its response, and in the changes message it broadcasts
Reported(c) ==
    LET r == finishPut(c, "none")
    IN {r.sent[i].msg.version : i \in DOMAIN r.sent}
           \cup (IF c = Stateless THEN {r.response.version} ELSE {})

\* C23: pushes do not interleave: the records of a batch whose push is in
\* flight stand in the log in the order submitted, with one contiguous block
\* of versions that no record of another batch shares, and the version its
\* acknowledgement carries is the version of the last record of that batch.
C23_PushesDoNotInterleave ==
    \A c \in Callers :
        inflight[c].stage = "put" =>
            /\ Block(c) = Stamped(inflight[c].batch, inflight[c].first)
            /\ \E k \in 0..Len(changes) :
                   \A i \in 1..Len(Block(c)) :
                       k + i <= Len(changes) /\ changes[k + i] = Block(c)[i]
            /\ inflight[c].batch.items # <<>> =>
                   Reported(c) = {Block(c)[Len(Block(c))].version}

\* the stateless push waits for its body, a socket's push has its versions
\* and waits for its puts, and an earlier batch is in the log already
C23_Witness ==
    /\ inflight[Stateless].stage = "body"
    /\ inflight[Stateless].batch.items # <<>>
    /\ \E ws \in WS :
           /\ inflight[ws].stage = "put"
           /\ inflight[ws].first > 0
           /\ Len(inflight[ws].batch.items) > 0
           /\ Reported(ws) = {currentVersion}

\* C24: in every reachable state every session whose workspaceId is set has
\* a non-empty accountId: no sequence of messages takes a session to Joined
\* without a successful authenticate first; a join by a session without an
\* accountId leaves its workspaceId unset.
C24_NoJoinWithoutAuth ==
    /\ \A ws \in DOMAIN sessions :
           sessions[ws].workspaceId # Null => sessions[ws].accountId # ""
    /\ \A ws \in DOMAIN sessions, wid \in WorkspaceIds :
           sessions[ws].accountId = "" =>
               webSocketMessage(ws, [type |-> "join", workspaceId |-> wid],
                                "none").sessions[ws].workspaceId = Null

\* one session has joined, another one of the registry has not authenticated
C24_Witness ==
    \E ws \in DOMAIN sessions, w \in DOMAIN sessions :
        /\ sessions[ws].workspaceId = OwnWorkspace
        /\ sessions[ws].accountId \in Accounts
        /\ sessions[w].accountId = ""
        /\ sessions[w].workspaceId = Null

\* the channel of ws has closed or errored and the instance has handled it
Gone(ws) == chan[ws] \in {"closed", "dead"} /\ ws \notin DOMAIN sessions

\* what the later operations of the instance leave and send, an inbound
\* message on a channel that is gone among them
LaterOperations ==
    {webSocketMessage(w, m, fail) :
         w \in {x \in WS : chan[x] # "free"},
         m \in {x \in Messages : x.type = "push" => Fits(x.changes)},
         fail \in {"none", "version", "changes"}}
        \cup {fetchPost(h, b, "none") : h \in AuthHeaders, b \in RecordBatches}
        \cup {fetchGet(param) : param \in SinceParams}
        \cup {closed(w) : w \in {x \in WS : chan[x] # "free"}}
        \cup {errored(w) : w \in {x \in WS : chan[x] # "free"}}

\* closing and erroring remove the entry; to a session that is gone no later
\* operation sends, none brings its entry back, every presence message lists
\* sessions of the registry only, and a message arriving on its channel
\* changes nothing and is not answered
ClosedIsIgnored ==
    /\ \A ws \in DOMAIN sessions :
           /\ ws \notin DOMAIN closed(ws).sessions
           /\ ws \notin DOMAIN errored(ws).sessions
           /\ \A i \in DOMAIN closed(ws).sent : closed(ws).sent[i].to # ws
    /\ \A ws \in WS :
           Gone(ws) =>
               /\ \A r \in LaterOperations :
                      /\ ws \notin DOMAIN r.sessions
                      /\ \A i \in DOMAIN r.sent :
                             /\ r.sent[i].to # ws
                             /\ r.sent[i].msg.type = "presence" =>
                                    \A k \in DOMAIN r.sent[i].msg.members :
                                        \E w \in DOMAIN r.sessions :
                                            /\ Joined(r.sessions[w])
                                            /\ r.sent[i].msg.members[k]
                                                   = PresenceMember(r.sessions[w])
               /\ \A m \in Messages, fail \in {"none", "version", "changes"} :
                      webSocketMessage(ws, m, fail) = Unchanged(sessions, <<>>)

\* C25: closed is terminal: once a session's channel closes or errors its
\* registry entry is removed and never returns; afterwards no message is sent
\* to it, it appears in no later presence message, and an inbound message on
\* that channel changes no state and produces no reply.
C25_ClosedIsTerminal ==
    /\ []ClosedIsIgnored
    /\ [][\A ws \in WS : Gone(ws) => Gone(ws)']_vars

\* one channel has closed and its entry is gone while a joined session with
\* an open channel remains to be sent the later messages
C25_Witness ==
    \E ws \in WS, w \in DOMAIN sessions :
        /\ chan[ws] = "closed"
        /\ Gone(ws)
        /\ Joined(sessions[w])
        /\ chan[w] = "open"
        /\ Len(changes) > 0

\* C26: incremental pull converges: what a client that pulls with the
\* version of its previous pull has received, followed by what its next pull
\* returns, is the log: every record once, in version order, whatever pushes
\* and restarts happen in between.
C26_IncrementalPullConverges ==
    cursor.got \o filter(changes, Num(cursor.since)) = changes

\* the currentVersion a client is told when it asks now (GET /changes; the
\* joined, pushed and changes messages carry the same field)
ReportedVersion == fetchGet([kind |-> "absent"]).response.version

\* C27: currentVersion never goes down: over any sequence of operations,
\* failing pushes and restarts included, each currentVersion reported to a
\* client is greater than or equal to every value reported earlier.
C27_VersionNeverGoesDown == [][ReportedVersion' >= ReportedVersion]_vars

\* C28: a session is only ever joined to the coordinator's own workspace:
\* whenever the workspaceId of a session is set it is the workspace of the
\* instance that holds the session, and a session that names another
\* workspace is not given this instance's log.
C28_JoinedToOwnWorkspaceOnly ==
    \A ws \in DOMAIN sessions :
        Truthy(sessions[ws].workspaceId) =>
            /\ sessions[ws].workspaceId = room
            /\ idFromName(sessions[ws].workspaceId) = idFromName(room)

\* C29: re-authentication is idempotent: an authenticated session that
\* authenticates again with a valid token of the same account keeps its
\* accountId, siteId and workspaceId, the siteId being a function of the
\* accountId and the time of the connection (joinedAt) only.
C29_ReauthenticationIsIdempotent ==
    \A ws \in DOMAIN sessions, token \in Tokens \ InvalidTokens :
        (Truthy(sessions[ws].accountId) /\ token.accountId = sessions[ws].accountId) =>
            LET r == webSocketMessage(ws, [type |-> "auth", token |-> token], "none")
            IN /\ Identity(r.sessions[ws]) = Identity(sessions[ws])
               /\ r.sessions[ws].siteId
                      = <<"site", sessions[ws].accountId, sessions[ws].joinedAt>>

\* result r answers ws with exactly one error message, of the given code,
\* and leaves the log, the counter and the session of ws as they are in ss
RejectedWith(r, ws, ss, code) ==
    /\ \A i \in DOMAIN r.sent :
           r.sent[i].to = ws => r.sent[i].msg.type = "error" /\ r.sent[i].msg.code = code
    /\ Cardinality(Sends(r, ws, "error")) = 1
    /\ r.changes = changes
    /\ r.currentVersion = currentVersion
    /\ Identity(r.sessions[ws]) = Identity(ss[ws])

\* C30: after a session is sent AUTH_FAILED it must authenticate again: in
\* the state the failed attempt leaves, its join is rejected with
\* NOT_AUTHENTICATED and its push and pull are rejected, also when the
\* session had authenticated and joined before the failed attempt.
C30_AuthFailedRequiresReauthentication ==
    \A ws \in DOMAIN sessions, token \in InvalidTokens :
        LET failed == webSocketMessage(ws, [type |-> "auth", token |-> token], "none")
            ss == failed.sessions
        IN /\ Cardinality(Sends(failed, ws, "error")) = 1
           /\ \A wid \in WorkspaceIds :
                  RejectedWith(handleJoin(ws, ss, wid), ws, ss, "NOT_AUTHENTICATED")
           /\ \A batch \in RecordBatches :
                  RejectedWith(handlePush(ws, ss, batch, "none"), ws, ss, "NOT_JOINED")
           /\ \A since \in SinceVersions :
                  RejectedWith(handlePull(ws, ss, since), ws, ss, "NOT_JOINED")

\* what the constructor would load from storage st
StoredLog(st) == IF get(st, "changes") # Undefined THEN get(st, "changes")[1] ELSE <<>>
StoredVersion(st) == IF get(st, "version") # Undefined THEN get(st, "version")[1] ELSE 0

\* the records of q are all in the log that storage st holds
HeldBy(st, q) == \A k \in DOMAIN q : \E j \in DOMAIN StoredLog(st) : StoredLog(st)[j] = q[k]

\* the pushes of the state, over every caller, batch and put outcome
PushResults ==
    {webSocketMessage(ws, PushMsg(b), fail) :
         ws \in DOMAIN sessions, b \in {x \in Batches : Fits(x)},
         fail \in {"none", "version", "changes"}}
        \cup {fetchPost(h, b, fail) :
                 h \in ValidHeaders, b \in {x \in Batches : Fits(x)},
                 fail \in {"none", "version", "changes"}}

\* the pulls of the state, over every session and sinceVersion, and the
\* stateless reads
PullResults ==
    {webSocketMessage(ws, PullMsg(v), "none") : ws \in DOMAIN sessions, v \in SinceVersions}
        \cup {fetchGet(param) : param \in SinceParams}

\* C31: every record delivered to a client (in a pull response, a stateless
\* GET response or a changes broadcast) is held by durable storage when it is
\* delivered, and after a push whose write failed the in-memory log and
\* currentVersion are what durable storage holds.
C31_DeliveredRecordsAreStored ==
    /\ \A r \in PullResults \cup PushResults :
           /\ \A i \in DOMAIN r.sent :
                  r.sent[i].msg.type = "changes" => HeldBy(r.storage, r.sent[i].msg.changes)
           /\ "changes" \in DOMAIN r.response => HeldBy(r.storage, r.response.changes)
    /\ \A r \in PushResults :
           r.thrown =>
               /\ r.changes = StoredLog(r.storage)
               /\ r.currentVersion = StoredVersion(r.storage)

\* C32: every session that has been sent joined, and has not left or
\* disconnected since, is treated as joined - its push and pull are accepted,
\* it is sent changes and presence broadcasts, and presence lists it - for
\* every workspaceId a join message can carry, the empty string included.
C32_JoinedMeansJoined ==
    \A ws \in DOMAIN sessions, wid \in WorkspaceIds :
        LET j == webSocketMessage(ws, [type |-> "join", workspaceId |-> wid], "none")
            ss == j.sessions
            later == broadcast(ss, [type |-> "changes", changes |-> <<>>,
                                    version |-> currentVersion])
        IN Sends(j, ws, "joined") # {} =>
               /\ Sends(handlePush(ws, ss, Array(<<>>), "none"), ws, "pushed") # {}
               /\ Sends(handlePull(ws, ss, Num(0)), ws, "changes") # {}
               /\ Sends(j, ws, "presence") # {}
               /\ \E i \in DOMAIN later : later[i].to = ws
               /\ \E k \in DOMAIN members(ss) : members(ss)[k] = PresenceMember(ss[ws])

\* C33: a token returned by login is accepted by the sync coordinator of the
\* same deployment, by the auth message of a session and by the stateless
\* POST /changes, whether or not SYNC_SECRET is configured.
C33_LoginTokenIsAccepted ==
    \A a \in Accounts :
        /\ \A ws \in DOMAIN sessions :
               LET r == webSocketMessage(ws, [type |-> "auth", token |-> login(a)], "none")
               IN /\ Sends(r, ws, "authenticated") # {}
                  /\ Sends(r, ws, "error") = {}
                  /\ r.sessions[ws].accountId = a
        /\ fetchPost([bearer |-> TRUE, token |-> login(a)], Array(<<>>),
                     "none").response.status = 200

\* the reply that answers a message of each type when it succeeds
ReplyType(type) ==
    CASE type = "auth" -> "authenticated"
      [] type = "join" -> "joined"
      [] type = "push" -> "pushed"
      [] type = "pull" -> "changes"

\* result r makes exactly one direct reply to ws, of the given type or an
\* error, an error when the handler threw, and the reply goes out when the
\* channel of ws is open
OneReply(r, ws, type) ==
    /\ Cardinality(Sends(r, ws, type)) + Cardinality(Sends(r, ws, "error")) = 1
    /\ r.thrown => Sends(r, ws, type) = {}
    /\ \A i \in Sends(r, ws, type) \cup Sends(r, ws, "error") :
           chan[ws] = "open" => r.sent[i].ok

\* every auth, join, push and pull of a session of the registry, whatever it
\* carries and however its puts end, is answered once; so is a push that
\* waits for its puts, when they end
ExactlyOneReply ==
    /\ \A ws \in DOMAIN sessions :
           \A m \in {x \in Messages : (x.type \in {"auth", "join", "push", "pull"})
                                       /\ (x.type = "push" => Fits(x.changes))} :
               \A fail \in {"none", "version", "changes"} :
                   OneReply(webSocketMessage(ws, m, fail), ws, ReplyType(m.type))
    /\ \A ws \in WS :
           inflight[ws].stage = "put" =>
               \A fail \in {"none", "version", "changes"} :
                   OneReply(finishPut(ws, fail), ws, "pushed")

\* C34: every auth, join, push or pull message from a session in the
\* registry is eventually answered with exactly one direct reply to that
\* session: authenticated, joined, pushed or changes on success, one error
\* otherwise, never both; a push that waits for storage is answered once the
\* puts are over.
C34_EveryMessageIsAnsweredOnce ==
    /\ []ExactlyOneReply
    /\ \A ws \in WS : (inflight[ws].stage = "put") ~> (inflight[ws].stage = "idle")

\* the push of a session waits for its puts, its reply is still to come, and
\* another session is joined
C34_Witness ==
    \E ws \in WS, w \in DOMAIN sessions :
        /\ w # ws
        /\ inflight[ws].stage = "put"
        /\ chan[ws] = "open"
        /\ Joined(sessions[w])
        /\ Sends(finishPut(ws, "none"), ws, "pushed") # {}
        /\ Sends(finishPut(ws, "changes"), ws, "error") # {}

====
